---- MODULE Spec2Model ----
(***************************************************************************)
(* ShellAI: the diagnostics collector (collect_info.py), the index         *)
(* lifecycle of SystemQueryEngine (ask.py), the cleanup command (cli.py)   *)
(* and the configuration store (config.py).                                *)
(*                                                                         *)
(* Files carry a stamp: 0 is "absent", a positive stamp identifies the     *)
(* write that produced the current content (a modification marker).       *)
(* In-memory index objects are identified by the stamp of the call that   *)
(* created them; 0 is None.                                                *)
(***************************************************************************)
EXTENDS Integers, Sequences, FiniteSets, TLC

\* ---------------------------------------------------------------- bounds
\* number of collection runs in one behaviour
MaxRuns == 2

\* number of initialize / refresh_index calls in one behaviour
MaxCalls == 2

\* number of configuration operations in one behaviour
MaxConfigOps == 4

\* number of lines the operator types before the end of input
MaxLines == 3

\* number of operations on the configuration singleton in one behaviour
MaxGlobalOps == 3

\* number of shellai commands run one after another
MaxCommands == 2

\* ------------------------------------------------------- program constants
\* ask.py:116 required_files
RequiredFiles == {"index_store.json", "docstore.json", "vector_store.json"}

\* collect_info.py:22-33 self.commands; the model keeps two of the ten entries
Catalog == {"os.txt", "users.txt"}

\* the artifact name of a --custom-command (collect_info.py:81 f"{name}.txt")
CustomName == "custom.txt"

ArtifactNames == Catalog \cup {CustomName}

\* what the persisted companion files load as (the framework's verdict):
\*   vector  - load_index_from_storage returns a VectorStoreIndex
\*   other   - it returns an index of another class
\*   corrupt - it raises
\*   mixed   - files of different writes; the load may succeed or raise
Kinds == {"vector", "other", "corrupt", "mixed"}

VARIABLES
    info_dir,       \* system_info_dir exists on disk
    txt,            \* [ArtifactNames -> stamp] the *.txt artifacts
    storage_dir,    \* storage subdirectory exists
    store,          \* [RequiredFiles -> stamp] the companion files
    kind,           \* what the companion files load as
    runs,           \* collection runs so far; the stamp of the last one
    clock,          \* engine calls so far; the stamp of the last one
    engine,         \* the SystemQueryEngine object of the running process
    settings_llm,   \* Settings.llm is set (process-wide)
    last,           \* observation of the last engine / collector / cleanup operation
    config,         \* the ShellAIConfig object: constructed, and its _config
    file,           \* the configuration file on disk
    cops,           \* configuration operations so far
    clast,          \* observation of the last configuration operation
    trip,           \* progress of a set / save / reload sequence
    mdefault,       \* _merge_config: the default mapping given
    muser,          \* _merge_config: the user mapping given
    mout,           \* _merge_config: the mapping `default` holds afterwards
    mdone,          \* _merge_config has run
    sinput,         \* interactive session: the lines the operator types, then EOF
    spos,           \* interactive session: lines read so far
    squeries,       \* interactive session: the query() calls made, in order
    sdone,          \* interactive session: the loop has ended
    gconf,          \* config._config, the process-wide singleton (id 0: None)
    gfiles,         \* the configuration file at each path
    gops,           \* number of operations on the singleton so far
    glast,          \* the last operation on the singleton
    proc            \* the last shellai command: its name and exit status

evars == <<info_dir, txt, storage_dir, store, kind, runs, clock, engine, settings_llm, last>>
cvars == <<config, file, cops, clast, trip>>
mvars == <<mdefault, muser, mout, mdone>>
svars == <<sinput, spos, squeries, sdone>>
gvars == <<gconf, gfiles, gops, glast>>
xvars == <<svars, gvars, proc>>
vars == <<evars, cvars, mvars, xvars>>

\* ------------------------------------------------------------ Command Runner
\* what the spawned process does (subprocess.run, collect_info.py:38-45)
CommandOutcomes ==
    {[kind |-> "exit", code |-> 0, stdout |-> "out"],
     [kind |-> "exit", code |-> 0, stdout |-> ""],
     [kind |-> "exit", code |-> 1, stdout |-> "out"],
     [kind |-> "timeout", code |-> 0, stdout |-> ""],     \* TimeoutExpired
     [kind |-> "error", code |-> 0, stdout |-> ""]}       \* SubprocessError

None == [some |-> FALSE, text |-> ""]
Some(s) == [some |-> TRUE, text |-> s]

\* collect_info.py:35-49
run_command(o) ==
    IF o.kind = "exit"
    THEN IF o.code = 0 THEN Some(o.stdout) ELSE None
    ELSE None

\* Python truthiness of an Optional[str]: None and "" are falsy
Truthy(r) == r.some /\ r.text # ""

\* ------------------------------------------------------ observation record
\* What the last operation was given and what it did:
\*   ret       - its return value ("exit1": sys.exit(1), "Raised": an exception
\*               left the call)
\*   load      - the outcome of the load attempt (none: no load was attempted)
\*   built     - _create_new_index was called
\*   read      - the text artifacts were read
\*   persisted - persist() returned
\*   excs      - the exceptions raised inside the call
\*   preExists, preKind, preText, preIndex - when the call began: all three
\*               companion files were there, what they loaded as, some *.txt
\*               was there, and self.index
\*   wrote     - the companion files whose content the call changed
\*   results, outs - collect_all's mapping and what each command did
\*   customOut - what collect_custom's command did
\*   removed   - the artifacts cleanup unlinked
NoResults == [n \in {} |-> FALSE]

\* a persisted index is present: all three companion files are there
AllCompanions(st) == \A f \in RequiredFiles : st[f] > 0

\* the artifact directory holds at least one *.txt
SomeText(t) == \E n \in ArtifactNames : t[n] > 0
NoCommand == [kind |-> "absent", code |-> 0, stdout |-> ""]

Idle ==
    [op |-> "none", ret |-> "none", load |-> "none", built |-> FALSE,
     read |-> FALSE, persisted |-> FALSE, excs |-> {},
     preExists |-> FALSE, preKind |-> "vector", preText |-> FALSE,
     preIndex |-> 0,
     wrote |-> {}, results |-> NoResults, outs |-> NoResults,
     customOut |-> NoCommand, removed |-> {}]

\* ------------------------------------------------------ Diagnostics Collector
\* variant: the artifact is opened for writing before the output is looked at
write_artifact_eager(old, o, stamp) == stamp

\* collect_info.py:61-71, one catalog entry: the artifact after the entry
write_artifact(old, o, stamp) ==
    IF Truthy(run_command(o)) THEN stamp ELSE old

\* collect_info.py:67/70 the recorded flag
recorded(o) == Truthy(run_command(o))

\* collect_info.py:51-73
collect_all(t, outs, stamp) ==
    [files   |-> [n \in ArtifactNames |->
                     IF n \in Catalog THEN write_artifact(t[n], outs[n], stamp)
                     ELSE t[n]],
     results |-> [n \in Catalog |-> recorded(outs[n])]]

\* collect_info.py:75-90
collect_custom(t, o, stamp) ==
    [files  |-> [t EXCEPT ![CustomName] = write_artifact(t[CustomName], o, stamp)],
     result |-> recorded(o)]

\* SystemInfoCollector(output_dir).collect_all(), as cli.py:98-101 and
\* collect_info.py:95-96 run it
CollectAll ==
    /\ runs < MaxRuns
    /\ \E outs \in [Catalog -> CommandOutcomes] :
        LET all == collect_all(txt, outs, runs + 1)
        IN  /\ info_dir' = TRUE                 \* collect_info.py:19 mkdir
            /\ txt' = all.files
            /\ runs' = runs + 1
            /\ last' = [Idle EXCEPT !.op = "collect_all", !.ret = "done",
                                    !.results = all.results, !.outs = outs]
    /\ UNCHANGED <<storage_dir, store, kind, clock, engine, settings_llm>>
    /\ UNCHANGED <<cvars, mvars, xvars>>

\* SystemInfoCollector(output_dir).collect_custom(name, command), as
\* cli.py:98,104-111 runs it for a --custom-command
CollectCustom ==
    /\ runs < MaxRuns
    /\ \E co \in CommandOutcomes :
        LET cust == collect_custom(txt, co, runs + 1)
        IN  /\ info_dir' = TRUE                 \* collect_info.py:19 mkdir
            /\ txt' = cust.files
            /\ runs' = runs + 1
            /\ last' = [Idle EXCEPT !.op = "collect_custom",
                                    !.ret = IF cust.result THEN "True" ELSE "False",
                                    !.customOut = co]
    /\ UNCHANGED <<storage_dir, store, kind, clock, engine, settings_llm>>
    /\ UNCHANGED <<cvars, mvars, xvars>>

\* ------------------------------------------------- Index Lifecycle Manager
\* Where the embedding / index / model layer raises during one call, and what
\* it returns.  The first exception outside the load attempt ends the call, so
\* one failure point (besides the load) describes the layer's behaviour:
\*   load    - FALSE: load_index_from_storage raises on files of mixed writes
\*   docs    - FALSE: SimpleDirectoryReader.load_data returns no document
\*   fail    - the call that raises (none: no call does)
\*   written - how many companion files persist() wrote, in PersistOrder,
\*             before it returned or raised
FailPoints == {"none", "embed", "llm", "reader", "index", "persist", "bind"}

\* StorageContext.persist writes the document store, the index store and the
\* vector store one after the other
PersistOrder == <<"docstore.json", "index_store.json", "vector_store.json">>

Env ==
    {e \in [load : BOOLEAN, docs : BOOLEAN, fail : FailPoints,
            written : 0..Len(PersistOrder)] :
        (e.fail = "persist") <=> (e.written < Len(PersistOrder))}

\* variant: a handler that catches only the errors of the model set-up
handled_narrow(exc) == exc \in {"embed", "llm"}

\* ask.py:108 and :174 `except Exception`: the handler catches exc
handled(exc) == TRUE

\* variant: any one companion file counts as a persisted index
storage_exists_any(st) == \E f \in RequiredFiles : st[f] > 0

\* ask.py:114-117
storage_exists(st) == \A f \in RequiredFiles : st[f] > 0

\* variant: the artifact check does not look at what is on disk
text_files_unchecked(t) == ArtifactNames

\* ask.py:125 list(self.system_info_dir.glob("*.txt"))
text_files(t) == {n \in ArtifactNames : t[n] > 0}

\* variant: the class test rejects every loaded index
load_index_rejecting(k, e) ==
    IF k = "corrupt" \/ (k = "mixed" /\ ~e.load) THEN "raise" ELSE "other"

\* ask.py:80-85 StorageContext.from_defaults + load_index_from_storage +
\* isinstance(loaded_index, VectorStoreIndex)
load_index(k, e) ==
    IF k = "vector" THEN "vector"
    ELSE IF k = "other" THEN "other"
    ELSE IF k = "corrupt" THEN "raise"
    ELSE IF e.load THEN "vector" ELSE "raise"

\* variant: the vector store is persisted under another file name
persist_renamed(st, e, stamp) ==
    [f \in RequiredFiles |->
        IF f # "vector_store.json" /\ (\E i \in 1..e.written : PersistOrder[i] = f)
        THEN stamp ELSE st[f]]

\* variant: the index is persisted somewhere else
persist_elsewhere(st, e, stamp) == st

\* ask.py:149 index.storage_context.persist(persist_dir=...)
persist(st, e, stamp) ==
    [f \in RequiredFiles |->
        IF \E i \in 1..e.written : PersistOrder[i] = f THEN stamp ELSE st[f]]

\* ask.py:119-154; index 0 is None, exc is the exception that left the call
create_new_index(t, st, k, e, stamp) ==
    LET nothing == [index |-> 0, store |-> st, kind |-> k, exc |-> {},
                    read |-> FALSE, persisted |-> FALSE]
    IN  IF text_files(t) = {} THEN nothing
        ELSE IF e.fail = "reader"
            THEN [nothing EXCEPT !.exc = {"reader"}, !.read = TRUE]
        ELSE IF ~e.docs THEN [nothing EXCEPT !.read = TRUE]
        ELSE IF e.fail = "index"
            THEN [nothing EXCEPT !.exc = {"index"}, !.read = TRUE]
        ELSE IF e.fail = "persist"
            THEN [index |-> 0, store |-> persist(st, e, stamp),
                  kind |-> IF e.written = 0 THEN k ELSE "mixed",
                  exc |-> {"persist"}, read |-> TRUE, persisted |-> FALSE]
        ELSE [index |-> stamp, store |-> persist(st, e, stamp),
              kind |-> "vector", exc |-> {}, read |-> TRUE, persisted |-> TRUE]

\* ask.py:35-58.  fresh: the engine is built in a new process.
Construct ==
    \E fresh \in BOOLEAN :
        /\ IF info_dir
           THEN /\ storage_dir' = TRUE                       \* ask.py:58
                /\ engine' = [alive |-> TRUE, index |-> 0, query_engine |-> 0]
                /\ last' = [Idle EXCEPT !.op = "construct", !.ret = "done"]
           ELSE /\ storage_dir' = storage_dir                \* ask.py:52-55
                /\ engine' = [alive |-> FALSE, index |-> 0, query_engine |-> 0]
                /\ last' = [Idle EXCEPT !.op = "construct", !.ret = "exit1"]
        /\ settings_llm' = IF fresh THEN FALSE ELSE settings_llm
        /\ UNCHANGED <<info_dir, txt, store, kind, runs, clock>>
        /\ UNCHANGED <<cvars, mvars, xvars>>

\* ask.py:60-112.  eng is the engine before the call; the result carries the
\* engine, the companion files and Settings.llm after it, the return value and
\* what the call did.
initialize(eng, t, st, k, e, stamp) ==
    LET tryLoad == storage_exists(st)                          \* ask.py:77
        lo      == IF tryLoad THEN load_index(k, e) ELSE "none"
        build   == lo # "vector"                               \* ask.py:90,94,97
        b       == create_new_index(t, st, k, e, stamp)
        index   == IF build THEN b.index ELSE stamp
        loadExc == IF lo = "raise" THEN {"load"} ELSE {}
        base    == [engine |-> eng, store |-> st, kind |-> k, llm |-> TRUE,
                    ret |-> "False", load |-> lo, built |-> build,
                    read |-> build /\ b.read, persisted |-> build /\ b.persisted,
                    excs |-> loadExc, raised |-> FALSE]
    IN  IF e.fail \in {"embed", "llm"}                         \* ask.py:66-73
        THEN [base EXCEPT !.llm = FALSE, !.load = "none", !.built = FALSE,
                          !.read = FALSE, !.persisted = FALSE,
                          !.excs = {e.fail}, !.raised = ~handled(e.fail)]
        ELSE IF build /\ b.exc # {}                            \* ask.py:108-112
        THEN [base EXCEPT !.store = b.store, !.kind = b.kind,
                          !.excs = loadExc \cup b.exc,
                          !.raised = \E x \in b.exc : ~handled(x)]
        ELSE IF index = 0                                      \* ask.py:99-100
        THEN [base EXCEPT !.engine.index = 0]
        ELSE IF e.fail = "bind"                                \* ask.py:103
        THEN [base EXCEPT !.engine.index = index,
                          !.store = IF build THEN b.store ELSE st,
                          !.kind = IF build THEN b.kind ELSE k,
                          !.excs = loadExc \cup {"bind"},
                          !.raised = ~handled("bind")]
        ELSE [base EXCEPT !.engine.index = index,              \* ask.py:103-106
                          !.engine.query_engine = index,
                          !.store = IF build THEN b.store ELSE st,
                          !.kind = IF build THEN b.kind ELSE k,
                          !.ret = "True"]

\* ask.py:156-176.  sllm: Settings.llm is set.
refresh_index(eng, t, st, k, sllm, e, stamp) ==
    LET b    == create_new_index(t, st, k, e, stamp)           \* ask.py:160
        base == [engine |-> eng, store |-> b.store, kind |-> b.kind,
                 llm |-> sllm, ret |-> "False", load |-> "none", built |-> TRUE,
                 read |-> b.read, persisted |-> b.persisted,
                 excs |-> b.exc, raised |-> \E x \in b.exc : ~handled(x)]
    IN  IF b.exc # {} THEN base                                \* ask.py:174-176
        ELSE IF b.index = 0                                    \* ask.py:162-163
        THEN [base EXCEPT !.engine.index = 0]
        ELSE IF ~sllm                                          \* ask.py:170-172
        THEN [base EXCEPT !.engine.index = b.index]
        ELSE IF e.fail = "bind"                                \* ask.py:167
        THEN [base EXCEPT !.engine.index = b.index, !.excs = {"bind"},
                          !.raised = ~handled("bind")]
        ELSE [base EXCEPT !.engine.index = b.index,            \* ask.py:167-169
                          !.engine.query_engine = b.index,
                          !.ret = "True"]

\* the effect of one engine call on the state
Apply(op, r) ==
    /\ engine' = r.engine
    /\ store' = r.store
    /\ kind' = r.kind
    /\ settings_llm' = r.llm
    /\ clock' = clock + 1
    /\ last' = [Idle EXCEPT
                  !.op = op,
                  !.ret = IF r.raised THEN "Raised" ELSE r.ret,
                  !.load = r.load, !.built = r.built, !.read = r.read,
                  !.persisted = r.persisted, !.excs = r.excs,
                  !.preExists = AllCompanions(store), !.preKind = kind,
                  !.preText = SomeText(txt), !.preIndex = engine.index,
                  !.wrote = {f \in RequiredFiles : r.store[f] # store[f]}]
    /\ UNCHANGED <<info_dir, txt, storage_dir, runs>>
    /\ UNCHANGED <<cvars, mvars, xvars>>

Initialize ==
    /\ engine.alive
    /\ clock <= MaxCalls
    /\ \E e \in Env :
        Apply("initialize", initialize(engine, txt, store, kind, e, clock + 1))

RefreshIndex ==
    /\ engine.alive
    /\ clock <= MaxCalls
    /\ \E e \in Env :
        Apply("refresh",
              refresh_index(engine, txt, store, kind, settings_llm, e, clock + 1))

\* ------------------------------------------------------------------ cleanup
\* cli.py:164-211; the set of artifacts the command unlinks
cleanup(t, sdir, force, confirm) ==
    IF ~sdir THEN {}                                           \* cli.py:175-179
    ELSE IF text_files(t) = {} THEN {}                         \* cli.py:182-185
    ELSE IF ~force /\ ~confirm THEN {}                         \* cli.py:193-201
    ELSE text_files(t)                                         \* cli.py:205-207

Cleanup ==
    \E force \in BOOLEAN, confirm \in BOOLEAN :
        LET gone == cleanup(txt, storage_dir, force, confirm)
        IN  /\ txt' = [n \in ArtifactNames |-> IF n \in gone THEN 0 ELSE txt[n]]
            /\ last' = [Idle EXCEPT !.op = "cleanup", !.ret = "done",
                                    !.preExists = AllCompanions(store),
                                    !.preText = SomeText(txt),
                                    !.removed = gone]
            /\ UNCHANGED <<info_dir, storage_dir, store, kind, runs, clock, engine,
                           settings_llm>>
            /\ UNCHANGED <<cvars, mvars, xvars>>

\* ------------------------------------------------------ Configuration Store
\* A configuration value is a scalar [t, v] (t its Python type, v its text) or
\* a mapping [t |-> "map", m |-> a function from keys to values].
Scalar(t, v) == [t |-> t, v |-> v]
Str(v) == Scalar("str", v)
PyNone == Scalar("null", "null")
Map(m) == [t |-> "map", m |-> m]
IsMap(n) == n.t = "map"
EmptyDict == [k \in {} |-> PyNone]

\* d[k] = v on a dict
assign(d, k, v) == [x \in DOMAIN d \cup {k} |-> IF x = k THEN v ELSE d[x]]

\* config.py:30-40
DefaultConfig ==
    [k \in {"ollama", "embedding", "system_info"} |->
        IF k = "ollama"
        THEN Map([j \in {"base_url", "default_model", "request_timeout"} |->
                    IF j = "base_url" THEN Str("http://localhost:11434")
                    ELSE IF j = "default_model" THEN Str("gemma2:2b")
                    ELSE Scalar("float", "60.0")])
        ELSE IF k = "embedding"
        THEN Map([j \in {"model"} |-> Str("local:BAAI/bge-small-en")])
        ELSE Map([j \in {"output_dir", "storage_dir"} |->
                    IF j = "output_dir" THEN Str("system_info") ELSE Str("storage")])]

\* variant: dict.update, a shallow merge
merge_config_shallow(default, user) ==
    [key \in DOMAIN default \cup DOMAIN user |->
        IF key \in DOMAIN user THEN user[key] ELSE default[key]]

\* config.py:60-66; the mapping `default` holds after the in-place merge
RECURSIVE merge_config(_, _)
merge_config(default, user) ==
    [key \in DOMAIN default \cup DOMAIN user |->
        IF key \notin DOMAIN user THEN default[key]
        ELSE IF key \in DOMAIN default /\ IsMap(default[key]) /\ IsMap(user[key])
        THEN Map(merge_config(default[key].m, user[key].m))
        ELSE user[key]]

\* str.split("."), config.py:79 and :92.  A dotted key is a sequence of name
\* tokens and "." tokens in which no two names are adjacent.
RECURSIVE split(_)
split(key_path) ==
    IF key_path = <<>> THEN <<"">>
    ELSE IF Head(key_path) = "." THEN <<"">> \o split(Tail(key_path))
    ELSE <<Head(key_path)>> \o Tail(split(Tail(key_path)))

\* config.py:77-88, on the split keys
RECURSIVE get_keys(_, _, _)
get_keys(value, keys, default) ==
    IF keys = <<>> THEN value
    ELSE IF IsMap(value) /\ Head(keys) \in DOMAIN value.m
    THEN get_keys(value.m[Head(keys)], Tail(keys), default)
    ELSE default

get(cfg, key_path, default) == get_keys(Map(cfg), split(key_path), default)

\* config.py:90-102, on the split keys.  ok = FALSE: a TypeError is raised,
\* because the walk reached a value that is not a dict.
RECURSIVE set_keys(_, _, _)
set_keys(cfg, keys, value) ==
    IF Len(keys) = 1 THEN [ok |-> TRUE, m |-> assign(cfg, keys[1], value)]
    ELSE LET key   == Head(keys)
             child == IF key \in DOMAIN cfg THEN cfg[key] ELSE Map(EmptyDict)
         IN  IF IsMap(child)
             THEN LET r == set_keys(child.m, Tail(keys), value)
                  IN  [ok |-> r.ok,
                       m  |-> IF r.ok THEN assign(cfg, key, Map(r.m)) ELSE cfg]
             ELSE [ok |-> FALSE, m |-> cfg]

set(cfg, key_path, value) == set_keys(cfg, split(key_path), value)

\* ---------------------------------------------------------------- YAML
\* A YAML node is a scalar [y |-> "plain" | "quoted", text] or a mapping
\* [y |-> "map", m].  A plain scalar is typed by the implicit resolver when it
\* is read; a quoted one is a string.
BoolTexts  == {"true", "false"}
IntTexts   == {"9"}
FloatTexts == {"60.0"}
NullTexts  == {"null", "~", ""}

\* the implicit resolver of yaml.safe_load
resolve(text) ==
    IF text \in BoolTexts THEN "bool"
    ELSE IF text \in IntTexts THEN "int"
    ELSE IF text \in FloatTexts THEN "float"
    ELSE IF text \in NullTexts THEN "null"
    ELSE "str"

\* variant: a representer that never quotes
dump_scalar_plain(n) == [y |-> "plain", text |-> n.v]

\* the representer of yaml.dump: a str is quoted when its plain form would not
\* be read back as a str
dump_scalar(n) ==
    IF n.t = "str" /\ resolve(n.v) # "str"
    THEN [y |-> "quoted", text |-> n.v]
    ELSE [y |-> "plain", text |-> n.v]

\* config.py:72 and :108 yaml.dump(self._config, ...)
RECURSIVE yaml_dump(_)
yaml_dump(n) ==
    IF IsMap(n)
    THEN [y |-> "map", m |-> [k \in DOMAIN n.m |-> yaml_dump(n.m[k])]]
    ELSE dump_scalar(n)

load_scalar(d) ==
    IF d.y = "quoted" THEN Str(d.text)
    ELSE IF resolve(d.text) = "null" THEN PyNone
    ELSE Scalar(resolve(d.text), d.text)

\* config.py:50 yaml.safe_load(f)
RECURSIVE yaml_load(_)
yaml_load(d) ==
    IF d.y = "map"
    THEN Map([k \in DOMAIN d.m |-> yaml_load(d.m[k])])
    ELSE load_scalar(d)

\* Python truthiness of a loaded document (config.py:50 `... or {}`)
Falsy(n) ==
    \/ n = PyNone
    \/ n = Str("")
    \/ n = Scalar("bool", "false")
    \/ IsMap(n) /\ DOMAIN n.m = {}

\* the configuration file: absent, not parsable as YAML, or a document
Absent == [k |-> "absent"]
Garbage == [k |-> "garbage"]
Doc(root) == [k |-> "doc", root |-> root]

\* config.py:68-75 and :104-112: the file after the write, and whether the
\* write succeeded (writable: open(..., "w") does not raise)
write_config(cfg, f, writable) ==
    IF writable THEN [ok |-> TRUE, file |-> Doc(yaml_dump(Map(cfg)))]
    ELSE [ok |-> FALSE, file |-> f]

\* config.py:42-58: _config and the file after _load_config
load_config(f, writable) ==
    IF f = Absent                                              \* config.py:56-58
    THEN [cfg |-> DefaultConfig,
          file |-> write_config(DefaultConfig, f, writable).file]
    ELSE IF f = Garbage                                        \* config.py:53-55
    THEN [cfg |-> DefaultConfig, file |-> f]
    ELSE LET loaded == yaml_load(f.root)
             user   == IF Falsy(loaded) THEN Map(EmptyDict) ELSE loaded
         IN  IF IsMap(user)                                    \* config.py:52
             THEN [cfg |-> merge_config(DefaultConfig, user.m), file |-> f]
             ELSE [cfg |-> DefaultConfig, file |-> f]          \* config.py:53-55

\* the dotted keys and the values the operations are given
DottedKeys ==
    {<<"ollama", ".", "default_model">>,       \* an existing leaf
     <<"ollama">>,                             \* an existing section
     <<"ollama", ".", "base_url", ".", "x">>,  \* below an existing leaf
     <<"new", ".", "key">>,                    \* a section that does not exist
     <<"new", ".">>}                           \* an empty last segment

Values ==
    {Str("x"), Str("true"), Str("9"), Str(""), Str("null"),
     Scalar("bool", "true"), Scalar("int", "9"), Scalar("float", "60.0"), PyNone}

\* what get returns for a key that is not there
Missing == Str("<missing>")

\* the configuration file a user may have written before the first run
UserFiles ==
    {Absent, Garbage,
     Doc([y |-> "plain", text |-> ""]),                        \* an empty file
     Doc([y |-> "plain", text |-> "x"]),                       \* not a mapping
     Doc([y |-> "map", m |-> [k \in {"ollama"} |->
            [y |-> "map", m |-> [j \in {"default_model"} |->
                [y |-> "plain", text |-> "llama3"]]]]]),
     Doc([y |-> "map", m |-> [k \in {"ollama"} |->
            [y |-> "plain", text |-> "9"]]]),                  \* ollama: 9
     Doc([y |-> "map", m |-> [k \in {"new"} |->
            [y |-> "map", m |-> [j \in {"key"} |->
                [y |-> "quoted", text |-> "true"]]]]])}

NoTrip == [stage |-> 0, key |-> <<>>, value |-> PyNone]
NoConfigOp == [op |-> "none", ok |-> TRUE]

\* config.py:24-28 ShellAIConfig(config_path)
ConfigConstruct ==
    /\ cops < MaxConfigOps
    /\ \E writable \in BOOLEAN :
        LET r == load_config(file, writable)
        IN  /\ config' = [made |-> TRUE, m |-> r.cfg]
            /\ file' = r.file
    /\ cops' = cops + 1
    /\ clast' = [op |-> "construct", ok |-> TRUE]
    /\ trip' = NoTrip
    /\ UNCHANGED <<evars, mvars, xvars>>

\* config.py:90-102
ConfigSet ==
    /\ config.made
    /\ cops < MaxConfigOps
    /\ \E key_path \in DottedKeys, value \in Values :
        LET r == set(config.m, key_path, value)
        IN  /\ config' = [config EXCEPT !.m = r.m]
            /\ clast' = [op |-> "set", ok |-> r.ok]
            /\ trip' = IF r.ok
                       THEN [stage |-> 1, key |-> key_path, value |-> value]
                       ELSE NoTrip
    /\ cops' = cops + 1
    /\ UNCHANGED <<file, evars, mvars, xvars>>

\* config.py:104-112
ConfigSave ==
    /\ config.made
    /\ cops < MaxConfigOps
    /\ \E writable \in BOOLEAN :
        LET w == write_config(config.m, file, writable)
        IN  /\ file' = w.file
            /\ clast' = [op |-> "save", ok |-> w.ok]
            /\ trip' = IF trip.stage = 1 /\ w.ok
                       THEN [trip EXCEPT !.stage = 2] ELSE NoTrip
    /\ cops' = cops + 1
    /\ UNCHANGED <<config, evars, mvars, xvars>>

\* config.py:114-116
ConfigReload ==
    /\ config.made
    /\ cops < MaxConfigOps
    /\ \E writable \in BOOLEAN :
        LET r == load_config(file, writable)
        IN  /\ config' = [config EXCEPT !.m = r.cfg]
            /\ file' = r.file
    /\ cops' = cops + 1
    /\ clast' = [op |-> "reload", ok |-> TRUE]
    /\ trip' = IF trip.stage = 2 THEN [trip EXCEPT !.stage = 3] ELSE NoTrip
    /\ UNCHANGED <<evars, mvars, xvars>>

\* ------------------------------------------------------- _merge_config alone
\* the mappings of depth two over two sections, two keys and three scalars
MergeScalars == {Scalar("int", "1"), Scalar("int", "2"), Scalar("int", "9")}
PartialFns(K, V) == UNION {[D -> V] : D \in SUBSET K}
MergeSections == {Map(m) : m \in PartialFns({"b", "c"}, MergeScalars)}
MergeTrees == PartialFns({"a", "d"}, MergeScalars \cup MergeSections)

MergeStep ==
    /\ ~mdone
    /\ mout' = merge_config(mdefault, muser)
    /\ mdone' = TRUE
    /\ UNCHANGED <<mdefault, muser, evars, cvars, xvars>>

\* ------------------------------------------------------------- CLI Frontend
\* One shellai command is one process.  proc holds the command, its exit
\* status, whether it came upon a missing system-info directory or a failed
\* initialize(), and the number of commands run so far.
NoProc == [cmd |-> "none", status |-> 0, hard |-> FALSE, n |-> 0]

\* the command ended: return from the handler is status 0, sys.exit(1) is 1
Exit(cmd, status, hard) ==
    /\ proc.n < MaxCommands
    /\ proc' = [cmd |-> cmd, status |-> status, hard |-> hard, n |-> proc.n + 1]
    /\ UNCHANGED <<runs, engine, settings_llm, last>>
    /\ UNCHANGED <<cvars, mvars, svars, gvars>>

\* ask.py:35-58 in a new process: the engine after construction
NewEngine == [alive |-> TRUE, index |-> 0, query_engine |-> 0]

\* cli.py:91-118 `shellai collect [--custom-command name:command]`
CliCollect ==
    \E outs \in [Catalog -> CommandOutcomes], co \in CommandOutcomes \cup {NoCommand} :
        LET all  == collect_all(txt, outs, clock + 1)                  \* cli.py:101
            cust == IF co = NoCommand THEN all.files                   \* cli.py:104-111
                    ELSE collect_custom(all.files, co, clock + 1).files
        IN  /\ info_dir' = TRUE                                        \* collect_info.py:19
            /\ txt' = cust
            /\ clock' = clock + 1
            /\ UNCHANGED <<storage_dir, store, kind>>
            /\ Exit("collect", 0, FALSE)

\* cli.py:130-154 `shellai ask [--refresh] [--question Q]`
CliAsk ==
    /\ clock' = clock + 2
    /\ UNCHANGED <<info_dir, txt>>
    /\ IF ~info_dir                                                    \* ask.py:52-55
       THEN /\ UNCHANGED <<storage_dir, store, kind>>
            /\ Exit("ask", 1, TRUE)
       ELSE /\ storage_dir' = TRUE                                     \* ask.py:58
            /\ \E refresh \in BOOLEAN, e1 \in Env :
                LET i == initialize(NewEngine, txt, store, kind, e1, clock + 1)
                IN  IF i.ret # "True"                                  \* cli.py:138-139
                    THEN /\ store' = i.store
                         /\ kind' = i.kind
                         /\ Exit("ask", 1, TRUE)
                    ELSE IF ~refresh                                   \* cli.py:147-154
                    THEN /\ store' = i.store
                         /\ kind' = i.kind
                         /\ Exit("ask", 0, FALSE)
                    ELSE \E e2 \in Env :                               \* cli.py:142-145
                        LET r == refresh_index(i.engine, txt, i.store, i.kind,
                                               i.llm, e2, clock + 2)
                        IN  /\ store' = r.store
                            /\ kind' = r.kind
                            /\ Exit("ask", IF r.ret = "True" THEN 0 ELSE 1, FALSE)

\* cli.py:274-289 `shellai refresh`
CliRefresh ==
    /\ clock' = clock + 2
    /\ UNCHANGED <<info_dir, txt>>
    /\ IF ~info_dir                                                    \* ask.py:52-55
       THEN /\ UNCHANGED <<storage_dir, store, kind>>
            /\ Exit("refresh", 1, TRUE)
       ELSE /\ storage_dir' = TRUE                                     \* ask.py:58
            /\ \E e1 \in Env :
                LET i == initialize(NewEngine, txt, store, kind, e1, clock + 1)
                IN  IF i.ret # "True"                                  \* cli.py:282-283
                    THEN /\ store' = i.store
                         /\ kind' = i.kind
                         /\ Exit("refresh", 1, TRUE)
                    ELSE \E e2 \in Env :                               \* cli.py:285-289
                        LET r == refresh_index(i.engine, txt, i.store, i.kind,
                                               i.llm, e2, clock + 2)
                        IN  /\ store' = r.store
                            /\ kind' = r.kind
                            /\ Exit("refresh", IF r.ret = "True" THEN 0 ELSE 1, FALSE)

\* cli.py:220-264 `shellai status`: it prints and returns
CliStatus ==
    /\ UNCHANGED <<info_dir, txt, storage_dir, store, kind, clock>>
    /\ Exit("status", 0, ~info_dir)                                    \* cli.py:229-232

\* cli.py:164-211 `shellai cleanup [--force]`: it prints, unlinks and returns
CliCleanup ==
    \E force \in BOOLEAN, confirm \in BOOLEAN :
        LET gone == cleanup(txt, storage_dir, force, confirm)
        IN  /\ txt' = [n \in ArtifactNames |-> IF n \in gone THEN 0 ELSE txt[n]]
            /\ UNCHANGED <<info_dir, storage_dir, store, kind, clock>>
            /\ Exit("cleanup", 0, ~info_dir)                           \* cli.py:175-179

\* ------------------------------------------------- the configuration singleton
\* the paths a caller may name; NoPath is the argument None
ConfigPaths == {"config.yaml", "alt.yaml"}
NoPath == "None"
PathArgs == {NoPath, ""} \cup ConfigPaths

\* config.py:151 `... or config_path`: the argument is truthy
supplied(config_path) == config_path \notin {NoPath, ""}

\* config.py:144-145
NoInstance == [id |-> 0, path |-> "", m |-> EmptyDict]

\* config.py:148-153 get_config, with ShellAIConfig.__init__ (config.py:24-28):
\* the singleton and the files afterwards; id names the instance constructed
get_config(g, files, config_path, writable, id) ==
    IF g.id = 0 \/ supplied(config_path)
    THEN LET path == IF supplied(config_path) THEN config_path ELSE "config.yaml"
             r    == load_config(files[path], writable)
         IN  [conf  |-> [id |-> id, path |-> path, m |-> r.cfg],
              files |-> [files EXCEPT ![path] = r.file]]
    ELSE [conf |-> g, files |-> files]

\* the keys and values given to set() on the singleton
GlobalKeys == {<<"ollama", ".", "default_model">>, <<"new", ".", "key">>}
GlobalValues == {Str("x")}

\* the configuration files present before the process starts
GlobalFiles ==
    {Absent, Garbage,
     Doc([y |-> "map", m |-> [k \in {"ollama"} |->
            [y |-> "map", m |-> [j \in {"default_model"} |->
                [y |-> "plain", text |-> "llama3"]]]]])}

NoGlobalOp == [op |-> "none", arg |-> NoPath, ok |-> TRUE]

\* a new process: the module is imported, config.py:144-145
NewProcess ==
    /\ gops < MaxGlobalOps
    /\ gconf.id # 0
    /\ gconf' = NoInstance
    /\ gops' = gops + 1
    /\ glast' = [op |-> "start", arg |-> NoPath, ok |-> TRUE]
    /\ UNCHANGED <<gfiles, evars, cvars, mvars, svars, proc>>

\* config.py:148-153
GetConfig ==
    /\ gops < MaxGlobalOps
    /\ \E config_path \in PathArgs, writable \in BOOLEAN :
        LET r == get_config(gconf, gfiles, config_path, writable, gops + 1)
        IN  /\ gconf' = r.conf
            /\ gfiles' = r.files
            /\ glast' = [op |-> "get_config", arg |-> config_path, ok |-> TRUE]
    /\ gops' = gops + 1
    /\ UNCHANGED <<evars, cvars, mvars, svars, proc>>

\* get_config().set(key, value), not saved (config.py:90-102)
GlobalSet ==
    /\ gops < MaxGlobalOps
    /\ gconf.id # 0
    /\ \E key_path \in GlobalKeys, value \in GlobalValues :
        LET r == set(gconf.m, key_path, value)
        IN  /\ gconf' = [gconf EXCEPT !.m = r.m]
            /\ glast' = [op |-> "set", arg |-> NoPath, ok |-> r.ok]
    /\ gops' = gops + 1
    /\ UNCHANGED <<gfiles, evars, cvars, mvars, svars, proc>>

\* cli.py:35-71 `shellai [--config P] config --set key=value`: every setting is
\* applied to the singleton, which is then saved
CliConfigSet ==
    /\ gops < MaxGlobalOps
    /\ \E config_path \in PathArgs, writable \in BOOLEAN,
          key_path \in GlobalKeys, value \in GlobalValues :
        LET g == get_config(gconf, gfiles, config_path, writable, gops + 1)  \* cli.py:38
            r == set(g.conf.m, key_path, value)                              \* cli.py:64
            w == write_config(r.m, g.files[g.conf.path], writable)           \* cli.py:67
        IN  /\ gconf' = [g.conf EXCEPT !.m = r.m]
            /\ gfiles' = IF r.ok THEN [g.files EXCEPT ![g.conf.path] = w.file]
                         ELSE g.files
            /\ glast' = [op |-> "config --set", arg |-> config_path,
                         ok |-> r.ok /\ w.ok]
    /\ gops' = gops + 1
    /\ UNCHANGED <<evars, cvars, mvars, svars, proc>>

\* cli.py:35-46 `shellai [--config P] config --reset`.  In a directory that is
\* not writable unlink raises and the command stops there; ok says that the
\* file was written by create_default_config.
CliConfigReset ==
    /\ gops < MaxGlobalOps
    /\ \E config_path \in PathArgs, writable \in BOOLEAN :
        LET g       == get_config(gconf, gfiles, config_path, writable, gops + 1) \* cli.py:38
            path    == g.conf.path
            exists  == g.files[path] # Absent                          \* cli.py:41
            raised  == exists /\ ~writable                             \* cli.py:42
            w       == write_config(g.conf.m, Absent, writable)        \* cli.py:44
        IN  /\ gconf' = g.conf
            /\ gfiles' = IF raised THEN g.files
                         ELSE [g.files EXCEPT ![path] = w.file]
            /\ glast' = [op |-> "config --reset", arg |-> config_path,
                         ok |-> ~raised /\ w.ok]
    /\ gops' = gops + 1
    /\ UNCHANGED <<evars, cvars, mvars, svars, proc>>

GlobalIdle ==
    /\ gconf = NoInstance
    /\ gfiles = [p \in ConfigPaths |-> Absent]
    /\ gops = 0
    /\ glast = NoGlobalOp

\* ---------------------------------------------------------- Query Service
\* the lines an operator may type
Lines == {"", "   ", "exit", "EXIT", " Quit ", "q", "what os", "exiting"}

\* str.strip() on these lines (ask.py:200)
strip(line) ==
    IF line = "   " THEN ""
    ELSE IF line = " Quit " THEN "Quit"
    ELSE line

\* str.lower() on the stripped lines (ask.py:202)
lower(text) ==
    IF text = "EXIT" THEN "exit"
    ELSE IF text = "Quit" THEN "quit"
    ELSE text

\* ask.py:202 the exit keywords
ExitWords == {"exit", "quit", "q"}

\* variant: the comparison forgets to fold the case
is_exit_cased(question) == question \in ExitWords

\* ask.py:202 question.lower() in ["exit", "quit", "q"]
is_exit(question) == lower(question) \in ExitWords

\* what one query() call does (ask.py:178-190): an answer, an empty answer, or
\* an exception of the query engine, which query() turns into None
QueryOutcomes == {"answer", "empty", "raise"}

\* ask.py:198-219, one turn of the loop
SessionTurn ==
    /\ ~sdone
    /\ IF spos = Len(sinput)
       THEN /\ sdone' = TRUE                                   \* ask.py:217-219
            /\ UNCHANGED <<spos, squeries>>
       ELSE LET question == strip(sinput[spos + 1])            \* ask.py:200
            IN  /\ spos' = spos + 1
                /\ IF is_exit(question)                        \* ask.py:202-204
                   THEN sdone' = TRUE /\ UNCHANGED squeries
                   ELSE IF question = ""                       \* ask.py:206-207
                   THEN UNCHANGED <<sdone, squeries>>
                   ELSE /\ \E out \in QueryOutcomes :          \* ask.py:209-212
                             squeries' = Append(squeries,
                                                [question |-> question, out |-> out])
                        /\ UNCHANGED sdone
    /\ UNCHANGED <<sinput, evars, cvars, mvars, gvars, proc>>

SessionIdle ==
    /\ sinput = <<>>
    /\ spos = 0
    /\ squeries = <<>>
    /\ sdone = FALSE

OthersIdle == SessionIdle /\ GlobalIdle /\ proc = NoProc

\* ------------------------------------------------------------ specifications
EngineIdle ==
    /\ info_dir = FALSE
    /\ txt = [n \in ArtifactNames |-> 0]
    /\ storage_dir = FALSE
    /\ store = [f \in RequiredFiles |-> 0]
    /\ kind = "vector"
    /\ runs = 0
    /\ clock = 1
    /\ engine = [alive |-> FALSE, index |-> 0, query_engine |-> 0]
    /\ settings_llm = FALSE
    /\ last = Idle

ConfigIdle ==
    /\ config = [made |-> FALSE, m |-> EmptyDict]
    /\ file = Absent
    /\ cops = 0
    /\ clast = NoConfigOp
    /\ trip = NoTrip

MergeIdle ==
    /\ mdefault = EmptyDict
    /\ muser = EmptyDict
    /\ mout = EmptyDict
    /\ mdone = FALSE

\* The disk before the first command: nothing at all, or a system-info
\* directory without artifacts whose storage subdirectory holds any subset of
\* the companion files (stamp 1), left there by an earlier installation.
Init ==
    /\ info_dir \in BOOLEAN
    /\ txt = [n \in ArtifactNames |-> 0]
    /\ storage_dir \in BOOLEAN
    /\ storage_dir => info_dir
    /\ store \in [RequiredFiles -> {0, 1}]
    /\ (\E f \in RequiredFiles : store[f] > 0) => storage_dir
    /\ kind \in Kinds \ {"mixed"}
    /\ (~storage_exists(store)) => kind = "vector"
    /\ runs = 0
    /\ clock = 1
    /\ engine = [alive |-> FALSE, index |-> 0, query_engine |-> 0]
    /\ settings_llm = FALSE
    /\ last = Idle
    /\ ConfigIdle
    /\ MergeIdle
    /\ OthersIdle

Next ==
    \/ CollectAll
    \/ CollectCustom
    \/ Construct
    \/ Initialize
    \/ RefreshIndex
    \/ Cleanup

Spec == Init /\ [][Next]_vars

\* the configuration store, before ShellAIConfig is constructed
InitConfig ==
    /\ EngineIdle
    /\ MergeIdle
    /\ OthersIdle
    /\ config = [made |-> FALSE, m |-> EmptyDict]              \* config.py:27
    /\ file \in UserFiles
    /\ cops = 0
    /\ clast = NoConfigOp
    /\ trip = NoTrip

NextConfig ==
    \/ ConfigConstruct
    \/ ConfigSet
    \/ ConfigSave
    \/ ConfigReload

SpecConfig == InitConfig /\ [][NextConfig]_vars

\* _merge_config applied to every pair of mappings
InitMerge ==
    /\ EngineIdle
    /\ ConfigIdle
    /\ OthersIdle
    /\ mdefault \in MergeTrees
    /\ muser \in MergeTrees
    /\ mout = EmptyDict
    /\ mdone = FALSE

NextMerge == MergeStep

SpecMerge == InitMerge /\ [][NextMerge]_vars

\* the interactive session on every input of at most MaxLines lines; a turn
\* blocks only on input(), and the input ends
InitSession ==
    /\ EngineIdle
    /\ ConfigIdle
    /\ MergeIdle
    /\ GlobalIdle
    /\ proc = NoProc
    /\ sinput \in UNION {[1..n -> Lines] : n \in 0..MaxLines}
    /\ spos = 0
    /\ squeries = <<>>
    /\ sdone = FALSE

NextSession == SessionTurn

SpecSession == InitSession /\ [][NextSession]_vars /\ WF_vars(SessionTurn)

\* one process after another using the configuration singleton
InitGlobal ==
    /\ EngineIdle
    /\ ConfigIdle
    /\ MergeIdle
    /\ SessionIdle
    /\ proc = NoProc
    /\ gconf = NoInstance                                      \* config.py:145
    /\ gfiles \in [ConfigPaths -> GlobalFiles]
    /\ gops = 0
    /\ glast = NoGlobalOp

NextGlobal ==
    \/ NewProcess
    \/ GetConfig
    \/ GlobalSet
    \/ CliConfigSet
    \/ CliConfigReset

SpecGlobal == InitGlobal /\ [][NextGlobal]_vars

\* shellai commands run one after another on one disk
InitCli ==
    /\ info_dir \in BOOLEAN
    /\ txt = [n \in ArtifactNames |-> 0]
    /\ storage_dir \in BOOLEAN
    /\ storage_dir => info_dir
    /\ store \in [RequiredFiles -> {0, 1}]
    /\ (\E f \in RequiredFiles : store[f] > 0) => storage_dir
    /\ kind \in Kinds \ {"mixed"}
    /\ (~storage_exists(store)) => kind = "vector"
    /\ runs = 0
    /\ clock = 1
    /\ engine = [alive |-> FALSE, index |-> 0, query_engine |-> 0]
    /\ settings_llm = FALSE
    /\ last = Idle
    /\ ConfigIdle
    /\ MergeIdle
    /\ SessionIdle
    /\ GlobalIdle
    /\ proc = NoProc

NextCli ==
    \/ CliCollect
    \/ CliAsk
    \/ CliRefresh
    \/ CliStatus
    \/ CliCleanup

SpecCli == InitCli /\ [][NextCli]_vars

\* ------------------------------------------------------------------ claims
EngineCall == last.op \in {"initialize", "refresh"}

\* C1: cleanup (forced or confirmed) unlinks *.txt artifacts only when a
\* persisted index is present, i.e. all three companion files exist; when none
\* is present it deletes nothing.
C1_CleanupOnlyWithIndex ==
    (last.op = "cleanup" /\ last.removed # {}) => AllCompanions(store)

\* C2 as stated: with a companion file missing, initialize() takes the build
\* path without a load attempt and afterwards all three companion files exist.
C2_AsStated ==
    (last.op = "initialize" /\ ~last.preExists)
        => (last.built /\ last.load = "none" /\ AllCompanions(store))

\* C2 amended: with a companion file missing, initialize() never attempts a
\* load; unless the embedding model or the LLM client raises first it takes the
\* build path; and whenever it returns True (likewise whenever persist
\* returned) all three companion files exist.
C2_MissingFileBuilds ==
    (last.op = "initialize" /\ ~last.preExists)
        => /\ last.load = "none"
           /\ (last.excs \cap {"embed", "llm"} = {}) => last.built
           /\ last.ret = "True" => (last.built /\ AllCompanions(store))
           /\ last.persisted => AllCompanions(store)

C2_Witness ==
    /\ last.op = "initialize"
    /\ ~last.preExists
    /\ last.built
    /\ last.ret = "True"
    /\ last.wrote = RequiredFiles

\* C3 as stated: with all three companion files holding content that loads as
\* a vector index, initialize() returns True with index and query engine bound
\* and does not invoke build.
C3_AsStated ==
    (last.op = "initialize" /\ last.preExists /\ last.preKind = "vector")
        => /\ last.ret = "True"
           /\ engine.index # 0
           /\ engine.query_engine = engine.index
           /\ ~last.built

\* C3 amended: with all three companion files holding content that loads as a
\* vector index, initialize() never invokes build (no artifact is read, no
\* companion file is rewritten), and it returns True with index and query
\* engine bound unless the embedding model, the LLM client or the query-engine
\* binding raises, in which case it returns False.
C3_LoadWithoutBuild ==
    (last.op = "initialize" /\ last.preExists /\ last.preKind = "vector")
        => /\ ~last.built
           /\ ~last.read
           /\ last.wrote = {}
           /\ last.excs = {} => /\ last.ret = "True"
                                /\ last.load = "vector"
                                /\ engine.index # 0
                                /\ engine.query_engine = engine.index
           /\ last.excs # {} => last.ret = "False"

C3_Witness ==
    /\ last.op = "initialize"
    /\ last.preExists
    /\ last.preKind = "vector"
    /\ last.preText
    /\ last.load = "vector"
    /\ last.ret = "True"
    /\ engine.query_engine = engine.index

\* C4: a build against an artifact directory without any *.txt file fails:
\* self.index is None, initialize() and refresh_index() return False, nothing
\* is read and no companion file is created or changed.
C4_EmptyBuildFails ==
    (EngineCall /\ last.built /\ ~last.preText)
        => /\ last.ret = "False"
           /\ engine.index = 0
           /\ ~last.read
           /\ ~last.persisted
           /\ last.wrote = {}

C4_Witness ==
    /\ last.op = "refresh"
    /\ last.built
    /\ ~last.preText
    /\ last.preExists
    /\ last.ret = "False"

\* C5 as stated: refresh_index() always re-runs build and replaces the
\* existing companion files, whatever the current state.
C5_AsStated ==
    last.op = "refresh" => (last.built /\ last.wrote = RequiredFiles)

\* C5 amended: refresh_index() always re-runs build, whatever the current
\* state and also when a valid index was already loaded; it replaces all three
\* companion files exactly when the build completes (some *.txt exists, the
\* reader returns documents, nothing raises); otherwise it returns False and
\* leaves at least one companion file as it was.
C5_RefreshRebuilds ==
    last.op = "refresh"
        => /\ last.built
           /\ last.persisted <=> last.wrote = RequiredFiles
           /\ last.persisted => \A f \in RequiredFiles : store[f] = clock
           /\ last.ret = "True" => last.persisted
           /\ ~last.persisted => last.ret = "False"

C5_Witness ==
    /\ last.op = "refresh"
    /\ last.preExists
    /\ last.preKind = "vector"
    /\ last.preIndex # 0
    /\ last.wrote = RequiredFiles
    /\ last.ret = "True"

\* C6: an exception of the embedding / index / model layer during
\* initialize() or refresh_index() (a load attempt and the build after a
\* failed load included) never leaves the call: the call returns False; and a
\* load error alone does not make initialize() fail: it falls back to the
\* build, and returns True when the build succeeds and nothing else raises.
C6_ExceptionsBecomeFalse ==
    EngineCall
        => /\ last.ret \in {"True", "False"}
           /\ (last.excs \ {"load"}) # {} => last.ret = "False"
           /\ "load" \in last.excs => last.built
           /\ (last.excs = {"load"} /\ last.persisted) => last.ret = "True"

C6_Witness ==
    /\ last.op = "initialize"
    /\ last.load = "raise"
    /\ last.excs = {"load", "index"}
    /\ last.ret = "False"

\* the command exited with status zero within the timeout
ExitZero(o) == o.kind = "exit" /\ o.code = 0

\* C7: collect_all() returns a mapping with exactly one entry per catalog
\* item; an entry mapped true has its artifact on disk after the call; for an
\* entry mapped false no file is created and an artifact that was already
\* there is neither deleted nor overwritten.
C7_CollectAllFrame ==
    [][last'.op = "collect_all"
        => /\ DOMAIN last'.results = Catalog
           /\ \A n \in Catalog :
                /\ last'.results[n] => (txt'[n] > 0 /\ txt'[n] = runs')
                /\ ~last'.results[n] => txt'[n] = txt[n]
           /\ txt'[CustomName] = txt[CustomName]]_vars

\* a second run in which one entry fails and keeps the artifact of the first
\* run while another entry is written anew
C7_Witness ==
    /\ last.op = "collect_all"
    /\ runs = 2
    /\ \E n \in Catalog : ~last.results[n] /\ txt[n] = 1
    /\ \E n \in Catalog : last.results[n] /\ txt[n] = runs

\* C8: a catalog entry, or a custom command, is recorded as success if and
\* only if its command exits with status zero within the timeout, whatever it
\* printed; a non-zero exit, a timeout and a spawn failure are recorded as
\* failure.
C8_SuccessIffExitZero ==
    /\ last.op = "collect_all"
        => \A n \in Catalog : last.results[n] <=> ExitZero(last.outs[n])
    /\ last.op = "collect_custom"
        => (last.ret = "True" <=> ExitZero(last.customOut))

\* the key paths of a mapping of depth two, and the value at a path
Paths(m) ==
    {<<k>> : k \in DOMAIN m}
        \cup UNION {{<<k, j>> : j \in DOMAIN m[k].m} : k \in {x \in DOMAIN m : IsMap(m[x])}}

At(m, p) == IF Len(p) = 1 THEN m[p[1]] ELSE m[p[1]].m[p[2]]

Leaves(m) == {p \in Paths(m) : ~IsMap(At(m, p))}

\* the user mapping holds a value that is not a mapping above the path p
Shadowed(user, p) ==
    Len(p) = 2 /\ p[1] \in DOMAIN user /\ ~IsMap(user[p[1]])

\* C9 as stated: the merged record has the user's value at every leaf the user
\* file defines, keeps every key present only in the defaults, and adopts
\* every key present only in the file.
C9_AsStated ==
    mdone
        => /\ \A p \in Leaves(muser) :
                p \in Paths(mout) /\ At(mout, p) = At(muser, p)
           /\ \A p \in Paths(mdefault) \ Paths(muser) :
                p \in Paths(mout) /\ At(mout, p) = At(mdefault, p)
           /\ \A p \in Paths(muser) \ Paths(mdefault) : p \in Paths(mout)

\* C9 amended: the merged record has the user's value at every leaf the user
\* file defines, adopts every key present only in the file, and keeps every
\* key present only in the defaults except the keys of a default section that
\* the user file replaces by a value that is not a mapping.
C9_MergeLeaves ==
    mdone
        => /\ \A p \in Leaves(muser) :
                p \in Paths(mout) /\ At(mout, p) = At(muser, p)
           /\ \A p \in Paths(mdefault) \ Paths(muser) :
                IF Shadowed(muser, p) THEN p \notin Paths(mout)
                ELSE p \in Paths(mout) /\ At(mout, p) = At(mdefault, p)
           /\ \A p \in Paths(muser) \ Paths(mdefault) : p \in Paths(mout)
           /\ Paths(mout) \subseteq Paths(mdefault) \cup Paths(muser)

\* the example of the specification: {a: {b: 1, c: 2}} and {a: {b: 9}}
C9_Witness ==
    /\ mdone
    /\ mdefault = [k \in {"a"} |->
                     Map([j \in {"b", "c"} |->
                            IF j = "b" THEN Scalar("int", "1") ELSE Scalar("int", "2")])]
    /\ muser = [k \in {"a"} |-> Map([j \in {"b"} |-> Scalar("int", "9")])]
    /\ mout = [k \in {"a"} |->
                 Map([j \in {"b", "c"} |->
                        IF j = "b" THEN Scalar("int", "9") ELSE Scalar("int", "2")])]

C15_QueryEngineTracksIndex ==
    (engine.alive /\ engine.query_engine # 0)
        => engine.query_engine = engine.index

\* C16: whenever initialize() returns True the engine holds an index, the
\* query engine is bound (to that index) and all three companion files are in
\* the storage directory; whenever it returns False the call has bound no
\* query engine.
C16_InitializeResult ==
    [][last'.op = "initialize"
        => /\ last'.ret \in {"True", "False"}
           /\ last'.ret = "True"
                => /\ engine'.index # 0
                   /\ engine'.query_engine = engine'.index
                   /\ AllCompanions(store')
           /\ last'.ret = "False"
                => engine'.query_engine = engine.query_engine]_vars

\* initialize() returned True after a failed load and a rebuild
C16_Witness ==
    /\ last.op = "initialize"
    /\ last.ret = "True"
    /\ last.load = "raise"
    /\ last.built
    /\ engine.index = clock
    /\ engine.query_engine = clock
    /\ \A f \in RequiredFiles : store[f] = clock

\* what the specification calls an exit keyword and a blank line, surrounding
\* white space and case set aside
ExitLines == {"exit", "EXIT", " Quit ", "q"}
BlankLines == {"", "   "}

\* the first line that is an exit keyword (Len + 1: there is none)
FirstExit(input) ==
    IF \E i \in 1..Len(input) : input[i] \in ExitLines
    THEN CHOOSE i \in 1..Len(input) :
            /\ input[i] \in ExitLines
            /\ \A j \in 1..(i - 1) : input[j] \notin ExitLines
    ELSE Len(input) + 1

\* the lines among the first n that are to be asked
Asked(input, n) ==
    SelectSeq(SubSeq(input, 1, n), LAMBDA l : l \notin ExitLines \cup BlankLines)

\* C13: for every input the session ends, and it ends exactly at the first
\* line that is an exit keyword (case-insensitive) or at the end of input;
\* blank lines issue no query; every other line before that point issues
\* exactly one query, whether or not earlier queries failed.
C13_Session ==
    /\ [](/\ spos <= Len(sinput)
          /\ ~sdone => spos < FirstExit(sinput)
          /\ sdone => \/ spos = FirstExit(sinput)
                      \/ spos = Len(sinput) /\ FirstExit(sinput) > Len(sinput)
          /\ Len(squeries) = Len(Asked(sinput, spos))
          /\ \A i \in 1..Len(squeries) :
                /\ squeries[i].question \notin {"", "   "}
                /\ \/ squeries[i].question = Asked(sinput, spos)[i]
                   \/ squeries[i].question = "Quit" /\ Asked(sinput, spos)[i] = " Quit ")
    /\ <>sdone

\* a question whose query failed, a blank line, then EXIT: one query was made,
\* the session went on after the failure and stopped at the exit keyword
C13_Witness ==
    /\ sdone
    /\ sinput = <<"what os", "   ", "EXIT">>
    /\ spos = 3
    /\ Len(squeries) = 1
    /\ squeries[1].out = "raise"

\* the file yaml.dump writes for the default configuration
DefaultFile == Doc(yaml_dump(Map(DefaultConfig)))

\* C11: after `config --reset` has run and written the file, whatever the
\* previous contents of the configuration file or earlier set operations, the
\* on-disk configuration file holds exactly the default configuration.
C11_ResetWritesDefaults ==
    (glast.op = "config --reset" /\ glast.ok)
        => gfiles[gconf.path] = DefaultFile

\* C12: the first get_config() call creates the singleton; every later call
\* returns the same instance with its unsaved set() changes, unless the caller
\* supplies a path different from the current singleton's, and then a new
\* instance for that path replaces it.
C12_SingletonReused ==
    [][glast'.op = "get_config"
        => IF gconf.id = 0
           THEN gconf'.id # 0
           ELSE IF supplied(glast'.arg) /\ glast'.arg # gconf.path
           THEN gconf'.id # gconf.id /\ gconf'.path = glast'.arg
           ELSE gconf' = gconf]_vars

\* C14: every subcommand that comes upon a missing system-info directory or a
\* failed engine initialization ends the process with a non-zero exit status.
C14_HardFailureExitsNonZero ==
    proc.hard => proc.status # 0

====
